---- MODULE Spec2Model ----
(***************************************************************************)
(* Cache-or-fetch orchestration of the OHLCV data warehouse:               *)
(*   backend/src/data/warehouse.py   AlphaVantageClient, DataWarehouse     *)
(*   backend/src/api/routes/data.py  GET /ohlcv, POST /refresh             *)
(*                                                                         *)
(* Every inbound request is one asyncio task.  A task runs atomically      *)
(* between two awaits; the awaits that suspend it are the store range      *)
(* query, the provider HTTP call, the per-record existence select of the   *)
(* upsert and the commit.  Each action below is one such atomic stretch.   *)
(*                                                                         *)
(* Days are numbered 1..MaxT: the day string "YYYY-MM-DD" of a request or  *)
(* of a provider entry and the midnight datetime it parses to are the same *)
(* day number.  The store is the committed content of the ohlcv table, a   *)
(* bag of rows: the table's declaration is not part of the sources, and    *)
(* the only duplicate avoidance the sources contain is the existence       *)
(* select of save_ohlcv_data, so the table itself accepts equal keys.      *)
(* Reads see committed rows only (read committed).                         *)
(***************************************************************************)
EXTENDS Integers, Sequences, FiniteSets, Bags, TLC

\* Bounds of the model.
MaxT == 2            \* trading days 1..MaxT
MaxReq == 2          \* requests handled, possibly concurrently

Times == 1..MaxT
Reqs == 1..MaxReq
Symbols == {"AAPL", "aapl"}

\* start_date / end_date of a request.  An omitted date defaults to 2000-01-01
\* or to now, a range that holds every trading day and so acts as (1, MaxT).
DateArgs == Times

(***************************************************************************)
(* Provider payloads.  A field of an entry is a decimal string, a string   *)
(* that is no number, or missing.                                          *)
(***************************************************************************)
Num(n) == [tag |-> "num", v |-> n]
Text == [tag |-> "text", v |-> 0]
Missing == [tag |-> "missing", v |-> 0]

RawOk(rev) ==
    [open |-> Num(2 * rev), high |-> Num(2 * rev + 1), low |-> Num(2 * rev - 1),
     close |-> Num(2 * rev), volume |-> Num(10 * rev)]
RawInverted(rev) ==
    [open |-> Num(2 * rev), high |-> Num(2 * rev - 1), low |-> Num(2 * rev + 1),
     close |-> Num(2 * rev), volume |-> Num(10 * rev)]
RawMalformed == [RawOk(1) EXCEPT !.volume = Text, !.close = Missing]
RawEntries == {RawOk(1), RawInverted(1), RawMalformed}

\* The "Time Series (Daily)" sections: a dict from day to entry.  Every mix of
\* sound, inverted and malformed entries at revision 1; the sound ones again at
\* revision 2 (upstream restated its values).
NoSeries == [t \in {} |-> RawOk(1)]
Series ==
    (UNION {[D -> RawEntries] : D \in SUBSET Times}
     \cup UNION {[D -> {RawOk(2)}] : D \in SUBSET Times}) \ {NoSeries}

Payload(err, note, info, series) ==
    [transport |-> FALSE, error |-> err, note |-> note, info |-> info, series |-> series]
TransportFailure ==
    [transport |-> TRUE, error |-> FALSE, note |-> FALSE, info |-> FALSE, series |-> NoSeries]
Responses ==
    {TransportFailure,
     Payload(TRUE, FALSE, FALSE, NoSeries),
     Payload(FALSE, TRUE, FALSE, NoSeries),
     Payload(FALSE, FALSE, TRUE, NoSeries)}
    \cup {Payload(FALSE, FALSE, FALSE, s) : s \in Series \cup {NoSeries}}
NoResponse == Payload(FALSE, FALSE, FALSE, NoSeries)

(***************************************************************************)
(* Exceptions and outcomes.                                                *)
(***************************************************************************)
Exc(type, msg) == [type |-> type, msg |-> msg]
NoExc == Exc("", "")

\* float(values[key])
FloatFails(f) == f.tag # "num"

\* OHLCVData(timestamp=..., open=..., ...): the record class of models/data.py,
\* with the validation the data model section prescribes
\* (low <= open, close <= high; low <= high; volume >= 0).
OHLCVDataValid(o, h, l, c, v) ==
    /\ l <= h
    /\ l <= o /\ o <= h
    /\ l <= c /\ c <= h
    /\ v >= 0
OHLCVData(t, o, h, l, c, v) ==
    [timestamp |-> t, open |-> o, high |-> h, low |-> l, close |-> c, volume |-> v]

\* One iteration of the loop of _parse_time_series: TRUE when the entry is appended.
EntryParses(e) ==
    /\ ~FloatFails(e.open) /\ ~FloatFails(e.high) /\ ~FloatFails(e.low)
    /\ ~FloatFails(e.close) /\ ~FloatFails(e.volume)
    /\ OHLCVDataValid(e.open.v, e.high.v, e.low.v, e.close.v, e.volume.v)
EntryRecord(t, e) == OHLCVData(t, e.open.v, e.high.v, e.low.v, e.close.v, e.volume.v)

RECURSIVE SortedByTimestamp(_)
SortedByTimestamp(S) ==
    IF S = {} THEN <<>>
    ELSE LET m == CHOOSE x \in S : \A y \in S : x.timestamp <= y.timestamp
         IN <<m>> \o SortedByTimestamp(S \ {m})

\* Mutant: an entry is appended as soon as its five fields are numbers.
ParseTimeSeriesUnvalidated(series) ==
    SortedByTimestamp({EntryRecord(t, series[t]) :
                         t \in {u \in DOMAIN series :
                                  /\ ~FloatFails(series[u].open) /\ ~FloatFails(series[u].high)
                                  /\ ~FloatFails(series[u].low) /\ ~FloatFails(series[u].close)
                                  /\ ~FloatFails(series[u].volume)}})
ParseTimeSeries(series) ==
    SortedByTimestamp({EntryRecord(t, series[t]) :
                         t \in {u \in DOMAIN series : EntryParses(series[u])}})

\* fetch_daily: the exception raised, or NoExc and the parsed list.
FetchDailyExc(resp) ==
    IF resp.transport THEN Exc("HTTPError", "transport")
    ELSE IF resp.error THEN Exc("ValueError", "Alpha Vantage error")
    ELSE IF resp.note THEN Exc("ValueError", "API rate limit exceeded")
    ELSE IF resp.info THEN Exc("ValueError", "Alpha Vantage information")
    ELSE IF DOMAIN resp.series = {} THEN Exc("ValueError", "No time series data in response")
    ELSE NoExc
FetchDaily(resp) ==
    IF FetchDailyExc(resp) # NoExc THEN <<>> ELSE ParseTimeSeries(resp.series)


(***************************************************************************)
(* The store: committed rows of the ohlcv table, a bag of OHLCVRecord.     *)
(***************************************************************************)
\* Mutant: the row is built with high and low exchanged.
OHLCVRecordSwapped(symbol, o) ==
    [symbol |-> symbol, timestamp |-> o.timestamp, open |-> o.open, high |-> o.low,
     low |-> o.high, close |-> o.close, volume |-> o.volume]
OHLCVRecord(symbol, o) ==
    [symbol |-> symbol, timestamp |-> o.timestamp, open |-> o.open, high |-> o.high,
     low |-> o.low, close |-> o.close, volume |-> o.volume]

Restrict(st, S) == [x \in S |-> st[x]]

\* Mutant: the existence select finds nothing.
SelectExistingNothing(st, symbol, ts) == EmptyBag
\* select(OHLCVRecord).where(symbol == symbol, timestamp == ts): the rows found.
SelectExisting(st, symbol, ts) ==
    Restrict(st, {x \in BagToSet(st) : x.symbol = symbol /\ x.timestamp = ts})

\* Mutant: the start bound is exclusive.
InRangeOpenStart(ts, start_dt, end_dt) == ts > start_dt /\ ts <= end_dt
\* timestamp >= start_dt, timestamp <= end_dt
InRange(ts, start_dt, end_dt) == ts >= start_dt /\ ts <= end_dt

\* Mutant: the range select does not filter by symbol.
MatchingAnySymbol(st, symbol, start_dt, end_dt) ==
    Restrict(st, {x \in BagToSet(st) : InRange(x.timestamp, start_dt, end_dt)})
\* The rows the range select of _get_cached_data matches.
Matching(st, symbol, start_dt, end_dt) ==
    Restrict(st, {x \in BagToSet(st) :
                    x.symbol = symbol /\ InRange(x.timestamp, start_dt, end_dt)})

\* order_by(timestamp): rows of equal timestamp come in an order the database picks.
RECURSIVE OrderedByTimestamp(_)
OrderedByTimestamp(B) ==
    IF BagToSet(B) = {} THEN {<<>>}
    ELSE LET rows == BagToSet(B)
             first == {x \in rows : \A y \in rows : x.timestamp <= y.timestamp}
         IN UNION {{<<x>> \o s : s \in OrderedByTimestamp(B (-) SetToBag({x}))} : x \in first}

GetCachedData(st, symbol, start_dt, end_dt) ==
    OrderedByTimestamp(Matching(st, symbol, start_dt, end_dt))

\* _records_to_dataframe / _ohlcv_to_dataframe: one frame row per record.
FrameRow(x) ==
    [timestamp |-> x.timestamp, open |-> x.open, high |-> x.high, low |-> x.low,
     close |-> x.close, volume |-> x.volume]
\* Mutant: the frame of cached records comes out in reverse order.
RecordsToDataframeReversed(records) ==
    [i \in 1..Len(records) |-> FrameRow(records[Len(records) + 1 - i])]
RecordsToDataframe(records) == [i \in 1..Len(records) |-> FrameRow(records[i])]
OhlcvToDataframe(ohlcv_list) == [i \in 1..Len(ohlcv_list) |-> FrameRow(ohlcv_list[i])]

\* Mutant: the end bound is exclusive.
RowInRangeOpenEnd(x, start_dt, end_dt) == x.timestamp >= start_dt /\ x.timestamp < end_dt
RowInRange(x, start_dt, end_dt) == InRange(x.timestamp, start_dt, end_dt)
\* df[(df['timestamp'] >= start_dt) & (df['timestamp'] <= end_dt)] when len(df) > 0
FilterByDateRange(df, start_dt, end_dt) ==
    IF Len(df) > 0
    THEN SelectSeq(df, LAMBDA x : RowInRange(x, start_dt, end_dt))
    ELSE df


\* Mutant: the cache is never consulted.
CacheHitNever(cached_data) == FALSE
\* if cached_data and len(cached_data) > 0
CacheHit(cached_data) == Len(cached_data) > 0

\* Mutant: an empty fetch is not refused.
NoDataExcNever(ohlcv_data) == NoExc
\* if not ohlcv_data: raise ValueError(...)   (get_ohlcv_data, cache miss)
NoDataExc(ohlcv_data) ==
    IF Len(ohlcv_data) = 0 THEN Exc("ValueError", "No data returned from Alpha Vantage")
    ELSE NoExc

\* if not ohlcv_data: raise HTTPException(status_code=404, ...)   (POST /refresh)
RefreshNoDataExc(ohlcv_data) ==
    IF Len(ohlcv_data) = 0 THEN Exc("HTTPException", "404") ELSE NoExc

\* The status code of the handlers' except clauses.
RouteStatus(e) == IF e.type = "ValueError" THEN 400 ELSE 500


(***************************************************************************)
(* State.                                                                  *)
(***************************************************************************)
VARIABLES
    store,      \* committed rows of the ohlcv table (a bag of OHLCVRecord)
    pc,         \* per request: "idle", "fetch", "save", "commit", "done"
    req,        \* per request: the handler and its arguments
    raw,        \* per request: the provider's response to its fetch
    data,       \* per request: ohlcv_data, the list fetch_daily returned
    idx,        \* per request: position of the loop of save_ohlcv_data
    pending,    \* per request: rows added to its session, not yet committed
    out,        \* per request: what the call returned or raised
    calls,      \* per request: provider calls made
    snap,       \* history: the store when the request began
    fin,        \* history: the store after the request's latest step
    alone,      \* history: no other request was in flight while this one was
    wrote       \* history: the rows this request made visible in the store

vars == <<store, pc, req, raw, data, idx, pending, out, calls, snap, fin, alone, wrote>>

Request(op, symbol, start_dt, end_dt) ==
    [op |-> op, symbol |-> symbol, start_dt |-> start_dt, end_dt |-> end_dt]
NoRequest == Request("none", "", 0, 0)

\* What a request ended with.  status, rows and exc are the outcome of the
\* warehouse call (of the handler, for POST /refresh): "ok" with the frame's
\* rows, or "error" with the exception.  count is the number of records
\* reported, http the handler's response code, closed whether
\* warehouse.close() ran.
Out(status, rows, count, exc, http, closed) ==
    [status |-> status, rows |-> rows, count |-> count, exc |-> exc, http |-> http,
     closed |-> closed]
NoOut == Out("none", <<>>, 0, NoExc, 0, FALSE)

\* GET /ohlcv after get_ohlcv_data returned df: an empty frame raises
\* HTTPException(404) inside the try, which the handler's "except Exception"
\* turns into a 500; otherwise the warehouse is closed and the response is 200.
GetReturns(df) ==
    IF Len(df) = 0
    THEN Out("ok", df, 0, NoExc, RouteStatus(Exc("HTTPException", "404")), FALSE)
    ELSE Out("ok", df, Len(df), NoExc, 200, TRUE)

\* POST /refresh after the commit: close, then {"records": len(ohlcv_data)}.
RefreshReturns(ohlcv_data) == Out("ok", <<>>, Len(ohlcv_data), NoExc, 200, TRUE)

\* A handler's except clauses: the exception becomes the response.
Raises(e) == Out("error", <<>>, 0, e, RouteStatus(e), FALSE)

\* Mutant: get_ohlcv_data swallows the exception and returns an empty frame.
GetSwallows(e) == GetReturns(<<>>)
\* get_ohlcv_data's "except Exception as e: print(...); raise", then the
\* except clauses of GET /ohlcv.
GetFails(e) == Raises(e)
\* The except clauses of POST /refresh.
RefreshFails(e) == Raises(e)
Fails(op, e) == IF op = "get" THEN GetFails(e) ELSE RefreshFails(e)

InFlight(p) == p \notin {"idle", "done"}

Init ==
    /\ store = EmptyBag
    /\ pc = [r \in Reqs |-> "idle"]
    /\ req = [r \in Reqs |-> NoRequest]
    /\ raw = [r \in Reqs |-> NoResponse]
    /\ data = [r \in Reqs |-> <<>>]
    /\ idx = [r \in Reqs |-> 0]
    /\ pending = [r \in Reqs |-> {}]
    /\ out = [r \in Reqs |-> NoOut]
    /\ calls = [r \in Reqs |-> 0]
    /\ snap = [r \in Reqs |-> EmptyBag]
    /\ fin = [r \in Reqs |-> EmptyBag]
    /\ alone = [r \in Reqs |-> TRUE]
    /\ wrote = [r \in Reqs |-> EmptyBag]

\* History bookkeeping of a step of request r.
Begins(r) ==
    /\ snap' = [snap EXCEPT ![r] = store]
    /\ alone' = [q \in Reqs |->
                   IF q = r THEN \A p \in Reqs \ {r} : ~InFlight(pc[p])
                   ELSE IF InFlight(pc[q]) THEN FALSE ELSE alone[q]]
Continues == UNCHANGED <<snap, alone>>
Tracks(r) ==
    /\ fin' = [fin EXCEPT ![r] = store']
    /\ wrote' = [wrote EXCEPT ![r] = @ (+) (store' (-) store)]

(***************************************************************************)
(* DataWarehouse.get_ohlcv_data through GET /ohlcv: the range query and,   *)
(* on a cache hit, the return.                                             *)
(***************************************************************************)
GetOhlcvData(r) ==
    /\ pc[r] = "idle"
    /\ \A q \in Reqs : q < r => pc[q] # "idle"
    /\ \E symbol \in Symbols, start_dt \in DateArgs, end_dt \in DateArgs :
            \E cached_data \in GetCachedData(store, symbol, start_dt, end_dt) :
              /\ req' = [req EXCEPT ![r] = Request("get", symbol, start_dt, end_dt)]
              /\ IF CacheHit(cached_data)
                 THEN /\ out' = [out EXCEPT ![r] =
                           GetReturns(FilterByDateRange(RecordsToDataframe(cached_data),
                                                        start_dt, end_dt))]
                      /\ pc' = [pc EXCEPT ![r] = "done"]
                 ELSE /\ pc' = [pc EXCEPT ![r] = "fetch"]
                      /\ UNCHANGED out
    /\ UNCHANGED <<store, raw, data, idx, pending, calls>>
    /\ Begins(r) /\ Tracks(r)

\* Mutant: refresh consults the cache first and returns without a fetch when
\* the store holds a record of the symbol.
RefreshDataCached(r) ==
    /\ pc[r] = "idle"
    /\ \A q \in Reqs : q < r => pc[q] # "idle"
    /\ \E symbol \in Symbols :
         /\ req' = [req EXCEPT ![r] = Request("refresh", symbol, 0, 0)]
         /\ IF \E x \in BagToSet(store) : x.symbol = symbol
            THEN /\ pc' = [pc EXCEPT ![r] = "done"]
                 /\ out' = [out EXCEPT ![r] = RefreshReturns(<<>>)]
            ELSE /\ pc' = [pc EXCEPT ![r] = "fetch"]
                 /\ UNCHANGED out
    /\ UNCHANGED <<store, raw, data, idx, pending, calls>>
    /\ Begins(r) /\ Tracks(r)

(***************************************************************************)
(* POST /refresh: the handler up to its provider call.                     *)
(***************************************************************************)
RefreshData(r) ==
    /\ pc[r] = "idle"
    /\ \A q \in Reqs : q < r => pc[q] # "idle"
    /\ \E symbol \in Symbols :
         req' = [req EXCEPT ![r] = Request("refresh", symbol, 0, 0)]
    /\ pc' = [pc EXCEPT ![r] = "fetch"]
    /\ UNCHANGED <<store, raw, data, idx, pending, out, calls>>
    /\ Begins(r) /\ Tracks(r)

(***************************************************************************)
(* av_client.fetch_daily returns or raises; an empty list is refused.      *)
(***************************************************************************)
AvFetchDaily(r) ==
    /\ pc[r] = "fetch"
    /\ \E resp \in Responses :
         LET e == FetchDailyExc(resp)
             ohlcv_data == FetchDaily(resp)
             empty == IF req[r].op = "get" THEN NoDataExc(ohlcv_data)
                      ELSE RefreshNoDataExc(ohlcv_data)
         IN /\ raw' = [raw EXCEPT ![r] = resp]
            /\ calls' = [calls EXCEPT ![r] = @ + 1]
            /\ IF e # NoExc
               THEN /\ out' = [out EXCEPT ![r] = Fails(req[r].op, e)]
                    /\ pc' = [pc EXCEPT ![r] = "done"]
                    /\ UNCHANGED <<data, idx>>
               ELSE IF empty # NoExc
               THEN /\ out' = [out EXCEPT ![r] = Fails(req[r].op, empty)]
                    /\ pc' = [pc EXCEPT ![r] = "done"]
                    /\ UNCHANGED <<data, idx>>
               ELSE /\ data' = [data EXCEPT ![r] = ohlcv_data]
                    /\ idx' = [idx EXCEPT ![r] = 1]
                    /\ pc' = [pc EXCEPT ![r] =
                          IF Len(ohlcv_data) = 0 THEN "commit" ELSE "save"]
                    /\ UNCHANGED out
    /\ UNCHANGED <<store, req, pending>>
    /\ Continues /\ Tracks(r)

(***************************************************************************)
(* save_ohlcv_data: one iteration of its loop (existence select, add).     *)
(***************************************************************************)
\* Mutant: every add is committed at once (autocommit).
StoreAfterAddAutocommit(st, record) == st (+) SetToBag({record})
\* session.add(record): the row waits in the session; the table is unchanged.
StoreAfterAdd(st, record) == st

SaveOhlcvData(r) ==
    /\ pc[r] = "save"
    /\ LET ohlcv == data[r][idx[r]]
           existing == SelectExisting(store, req[r].symbol, ohlcv.timestamp)
           record == OHLCVRecord(req[r].symbol, ohlcv)
       IN IF BagCardinality(existing) > 1
          THEN \* scalar_one_or_none() raises MultipleResultsFound
               /\ out' = [out EXCEPT ![r] =
                     Fails(req[r].op, Exc("MultipleResultsFound", "select"))]
               /\ pc' = [pc EXCEPT ![r] = "done"]
               /\ pending' = [pending EXCEPT ![r] = {}]
               /\ UNCHANGED <<store, idx>>
          ELSE /\ IF BagCardinality(existing) = 0
                  THEN /\ pending' = [pending EXCEPT ![r] = @ \cup {record}]
                       /\ store' = StoreAfterAdd(store, record)
                  ELSE UNCHANGED <<pending, store>>
               /\ idx' = [idx EXCEPT ![r] = @ + 1]
               /\ pc' = [pc EXCEPT ![r] = IF idx[r] = Len(data[r]) THEN "commit" ELSE "save"]
               /\ UNCHANGED out
    /\ UNCHANGED <<req, raw, data, calls>>
    /\ Continues /\ Tracks(r)

(***************************************************************************)
(* db_session.commit() of save_ohlcv_data, and the handler's return.       *)
(***************************************************************************)
\* Mutant: the commit is lost (the call returns without having committed).
CommittedNothing(st, rows) == st
\* Mutant: the commit overwrites the stored rows of the keys it writes.
CommittedReplacing(st, rows) ==
    Restrict(st, {x \in BagToSet(st) :
                    \A y \in rows : ~(y.symbol = x.symbol /\ y.timestamp = x.timestamp)})
    (+) SetToBag(rows)
Committed(st, rows) == st (+) SetToBag(rows)

Commit(r) ==
    /\ pc[r] = "commit"
    /\ store' = Committed(store, pending[r])
    /\ pending' = [pending EXCEPT ![r] = {}]
    /\ out' = [out EXCEPT ![r] =
          IF req[r].op = "get"
          THEN GetReturns(FilterByDateRange(OhlcvToDataframe(data[r]),
                                            req[r].start_dt, req[r].end_dt))
          ELSE RefreshReturns(data[r])]
    /\ pc' = [pc EXCEPT ![r] = "done"]
    /\ UNCHANGED <<req, raw, data, idx, calls>>
    /\ Continues /\ Tracks(r)

(***************************************************************************)
(* A store await of the upsert (execute or commit) raises: the session's   *)
(* transaction is rolled back with the request.  (A failure of the first   *)
(* range query ends the request before it has done anything.)              *)
(***************************************************************************)
StoreFails(r) ==
    /\ pc[r] \in {"save", "commit"}
    /\ out' = [out EXCEPT ![r] = Fails(req[r].op, Exc("SQLAlchemyError", "store"))]
    /\ pending' = [pending EXCEPT ![r] = {}]
    /\ pc' = [pc EXCEPT ![r] = "done"]
    /\ UNCHANGED <<store, req, raw, data, idx, calls>>
    /\ Continues /\ Tracks(r)

Next ==
    \E r \in Reqs :
        \/ GetOhlcvData(r)
        \/ RefreshData(r)
        \/ AvFetchDaily(r)
        \/ SaveOhlcvData(r)
        \/ Commit(r)
        \/ StoreFails(r)

Spec == Init /\ [][Next]_vars


(***************************************************************************)
(* Vocabulary of the properties.                                           *)
(***************************************************************************)
Started(r) == pc[r] # "idle"
Done(r) == pc[r] = "done"
IsGet(r) == req[r].op = "get"
IsRefresh(r) == req[r].op = "refresh"
Succeeded(r) == Done(r) /\ out[r].status = "ok"
Failed(r) == Done(r) /\ out[r].status = "error"

\* The rows of symbol in st whose timestamp lies in [s, e].
StoredInRange(st, symbol, s, e) ==
    {x \in BagToSet(st) : x.symbol = symbol /\ s <= x.timestamp /\ x.timestamp <= e}
\* What the range query of request r found when it ran.
FoundAtStart(r) == StoredInRange(snap[r], req[r].symbol, req[r].start_dt, req[r].end_dt)

Ascending(rows) == \A i, j \in 1..Len(rows) : i < j => rows[i].timestamp <= rows[j].timestamp
Within(rows, s, e) == \A i \in 1..Len(rows) : s <= rows[i].timestamp /\ rows[i].timestamp <= e
Occurrences(rows, v) == Cardinality({i \in 1..Len(rows) : rows[i] = v})
Values(x) ==
    [timestamp |-> x.timestamp, open |-> x.open, high |-> x.high, low |-> x.low,
     close |-> x.close, volume |-> x.volume]
KeyCount(st, symbol, t) ==
    BagCardinality(Restrict(st, {x \in BagToSet(st) : x.symbol = symbol /\ x.timestamp = t}))
NoDuplicateKeys(st) == \A symbol \in Symbols, t \in Times : KeyCount(st, symbol, t) <= 1

(***************************************************************************)
(* C1  Cache hit: when the range query of a get_series call with           *)
(* start <= end finds at least one stored record, the call returns exactly *)
(* the stored records of the symbol in [start, end] (each as often as it   *)
(* is stored), in ascending timestamp order, without a provider call and   *)
(* without a store write.                                                  *)
(***************************************************************************)
C1_CacheHitServesStore ==
    \A r \in Reqs :
        (Started(r) /\ IsGet(r) /\ req[r].start_dt <= req[r].end_dt /\ FoundAtStart(r) # {})
        => /\ Succeeded(r)
           /\ calls[r] = 0
           /\ wrote[r] = EmptyBag /\ pending[r] = {} /\ fin[r] = snap[r]
           /\ Ascending(out[r].rows)
           /\ Within(out[r].rows, req[r].start_dt, req[r].end_dt)
           /\ Len(out[r].rows) = BagCardinality(Restrict(snap[r], FoundAtStart(r)))
           /\ \A x \in FoundAtStart(r) :
                 Occurrences(out[r].rows, Values(x)) = CopiesIn(x, snap[r])

\* A hit that returns one stored record while the store holds another record of
\* the symbol outside the range.
C1_Witness ==
    \E r \in Reqs :
        /\ Succeeded(r) /\ IsGet(r) /\ calls[r] = 0
        /\ Len(out[r].rows) = 1
        /\ \E x \in BagToSet(snap[r]) :
              x.symbol = req[r].symbol /\ x.timestamp # out[r].rows[1].timestamp

(***************************************************************************)
(* C2  Cache miss: when the range query of a get_series call finds no      *)
(* record, the call invokes the provider exactly once, and when it         *)
(* succeeds it returns the provider's records with start <= timestamp <=   *)
(* end, in ascending timestamp order.                                      *)
(***************************************************************************)
C2_CacheMissFetchesOnce ==
    \A r \in Reqs :
        (Started(r) /\ IsGet(r) /\ FoundAtStart(r) = {})
        => /\ calls[r] = IF pc[r] = "fetch" THEN 0 ELSE 1
           /\ Succeeded(r) =>
                /\ out[r].rows =
                     SelectSeq(data[r], LAMBDA o : req[r].start_dt <= o.timestamp
                                                   /\ o.timestamp <= req[r].end_dt)
                /\ Ascending(out[r].rows)
                /\ data[r] = FetchDaily(raw[r])

\* A miss that succeeded, returned a record and left a fetched record out.
C2_Witness ==
    \E r \in Reqs :
        /\ Succeeded(r) /\ IsGet(r) /\ calls[r] = 1
        /\ Len(out[r].rows) >= 1
        /\ Len(out[r].rows) < Len(data[r])


(***************************************************************************)
(* C3  Concurrent upserts: however refresh calls and cache-miss get_series *)
(* calls interleave at the awaits of the upsert, the store never holds two *)
(* rows of one (symbol, timestamp) key, and once all calls have returned   *)
(* success no fetched key is missing.                                      *)
(***************************************************************************)
C3_ConcurrentUpsertSafe ==
    /\ NoDuplicateKeys(store)
    /\ (\A r \in Reqs : Started(r) => Succeeded(r))
       => \A r \in Reqs : \A i \in 1..Len(data[r]) :
             KeyCount(store, req[r].symbol, data[r][i].timestamp) >= 1

(***************************************************************************)
(* C4  Sequential idempotence of refresh: two refresh calls of one symbol, *)
(* one after the other with nothing in between and the same upstream       *)
(* response, on a store without duplicate keys: the store has no duplicate *)
(* key after the first call and none after the second, and the second call *)
(* leaves the store as the first left it.                                  *)
(***************************************************************************)
C4_SequentialRefreshIdempotent ==
    \A r1, r2 \in Reqs :
        (/\ r1 # r2
         /\ Succeeded(r1) /\ IsRefresh(r1) /\ alone[r1]
         /\ Succeeded(r2) /\ IsRefresh(r2) /\ alone[r2]
         /\ req[r1].symbol = req[r2].symbol
         /\ raw[r1] = raw[r2]
         /\ NoDuplicateKeys(snap[r1])
         /\ snap[r2] = fin[r1])
        => /\ NoDuplicateKeys(fin[r1])
           /\ NoDuplicateKeys(fin[r2])
           /\ fin[r2] = fin[r1]
           /\ wrote[r2] = EmptyBag

\* Two such refresh calls, the first of which stored two records.
C4_Witness ==
    \E r1, r2 \in Reqs :
        /\ r1 # r2
        /\ Succeeded(r1) /\ IsRefresh(r1) /\ alone[r1]
        /\ Succeeded(r2) /\ IsRefresh(r2) /\ alone[r2]
        /\ req[r1].symbol = req[r2].symbol
        /\ raw[r1] = raw[r2]
        /\ snap[r2] = fin[r1]
        /\ BagCardinality(wrote[r1]) = 2

(***************************************************************************)
(* C5  Provider failure on the miss path: when the provider call of a      *)
(* get_series call fails (transport failure, error message, rate-limit     *)
(* note, information message, no time-series section), the call fails,     *)
(* returns no records, and writes nothing: the store is as it was before   *)
(* the call.                                                               *)
(***************************************************************************)
ProviderFailed(resp) ==
    resp.transport \/ resp.error \/ resp.note \/ resp.info \/ DOMAIN resp.series = {}

C5_ProviderFailureFails ==
    \A r \in Reqs :
        (IsGet(r) /\ calls[r] = 1 /\ ProviderFailed(raw[r]))
        => /\ Failed(r)
           /\ out[r].exc # NoExc
           /\ out[r].rows = <<>>
           /\ wrote[r] = EmptyBag /\ pending[r] = {}
           /\ alone[r] => fin[r] = snap[r]

\* A rate-limited get_series call on a store that holds records of the
\* symbol, none of them in the range asked for.
C5_Witness ==
    \E r \in Reqs :
        /\ IsGet(r) /\ Failed(r) /\ calls[r] = 1 /\ raw[r].note
        /\ \E x \in BagToSet(snap[r]) : x.symbol = req[r].symbol

(***************************************************************************)
(* C6  get_series with start > end is rejected: the call fails, makes no   *)
(* provider call and leaves the store unchanged.                           *)
(***************************************************************************)
C6_InvalidRangeRejected ==
    \A r \in Reqs :
        (Started(r) /\ IsGet(r) /\ req[r].start_dt > req[r].end_dt)
        => /\ calls[r] = 0
           /\ wrote[r] = EmptyBag
           /\ Done(r) => Failed(r)

(***************************************************************************)
(* C7  Empty fetch on the miss path: when the response has a time-series   *)
(* section and no entry of it yields a record, get_series fails with the   *)
(* no-data error instead of returning an empty success, and nothing is     *)
(* written to the store.                                                   *)
(***************************************************************************)
NothingParsed(resp) ==
    /\ ~ProviderFailed(resp)
    /\ \A t \in DOMAIN resp.series : ~EntryParses(resp.series[t])

C7_EmptyFetchFails ==
    \A r \in Reqs :
        (IsGet(r) /\ calls[r] = 1 /\ NothingParsed(raw[r]))
        => /\ Failed(r)
           /\ out[r].exc = Exc("ValueError", "No data returned from Alpha Vantage")
           /\ out[r].rows = <<>>
           /\ wrote[r] = EmptyBag /\ pending[r] = {}

\* A get_series call whose response held two entries, none of them parsable.
C7_Witness ==
    \E r \in Reqs :
        /\ IsGet(r) /\ Failed(r) /\ calls[r] = 1 /\ NothingParsed(raw[r])
        /\ Cardinality(DOMAIN raw[r].series) = 2


(***************************************************************************)
(* C8  Validation: an entry of a response with high < low yields no record *)
(* of the provider client's result, none of the value get_series returns   *)
(* and none of the rows the call writes; the sound entries of the same     *)
(* response are still fetched, stored and (when in range) returned.        *)
(***************************************************************************)
IsNumeric(e) ==
    /\ e.open.tag = "num" /\ e.high.tag = "num" /\ e.low.tag = "num"
    /\ e.close.tag = "num" /\ e.volume.tag = "num"
IsInverted(e) == IsNumeric(e) /\ e.high.v < e.low.v
IsSound(e) ==
    /\ IsNumeric(e)
    /\ e.low.v <= e.open.v /\ e.open.v <= e.high.v
    /\ e.low.v <= e.close.v /\ e.close.v <= e.high.v
    /\ e.volume.v >= 0
ValuesOf(t, e) ==
    [timestamp |-> t, open |-> e.open.v, high |-> e.high.v, low |-> e.low.v,
     close |-> e.close.v, volume |-> e.volume.v]

FailedAtFetch(r) == IsGet(r) /\ Failed(r) /\ calls[r] = 1 /\ data[r] = <<>>
Cause(resp) ==
    IF resp.transport THEN "Transport"
    ELSE IF resp.note THEN "RateLimited"
    ELSE IF resp.error \/ resp.info THEN "UpstreamMessage"
    ELSE IF DOMAIN resp.series = {} THEN "NoData"
    ELSE "NoDataForSymbol"

C9_DistinctErrorKinds ==
    \A r1, r2 \in Reqs :
        (FailedAtFetch(r1) /\ FailedAtFetch(r2) /\ Cause(raw[r1]) # Cause(raw[r2]))
        => out[r1].exc.type # out[r2].exc.type

(***************************************************************************)
(* C10  Upsert atomicity: the records of one fetch become visible          *)
(* together.  While a call is inside its upsert, and when the upsert       *)
(* fails before its commit, the call has made no row visible in the store; *)
(* when the call succeeds, every fetched key is in the store and the rows  *)
(* the call made visible are rows of its batch.                            *)
(***************************************************************************)
C10_UpsertAtomic ==
    \A r \in Reqs :
        /\ pc[r] \in {"fetch", "save", "commit"} => wrote[r] = EmptyBag
        /\ Failed(r) => wrote[r] = EmptyBag /\ pending[r] = {}
        /\ (Succeeded(r) /\ calls[r] = 1) =>
              /\ \A i \in 1..Len(data[r]) :
                    KeyCount(fin[r], req[r].symbol, data[r][i].timestamp) >= 1
              /\ \A x \in BagToSet(wrote[r]) :
                    /\ CopiesIn(x, wrote[r]) = 1
                    /\ \E i \in 1..Len(data[r]) : x = OHLCVRecord(req[r].symbol, data[r][i])
              /\ pending[r] = {}

\* An upsert that failed at its commit, after both records of its batch had
\* been added to the session: the store holds neither.
C10_Witness ==
    \E r \in Reqs :
        /\ Failed(r) /\ out[r].exc.type = "SQLAlchemyError"
        /\ Len(data[r]) = 2 /\ idx[r] = 3
        /\ store = EmptyBag

(***************************************************************************)
(* C11  Write before success: whenever a cache-miss get_series call or a   *)
(* refresh call has returned success, its commit has completed: nothing of *)
(* its batch is still pending and every fetched key is in the store, where *)
(* any range query issued from then on finds it.                           *)
(***************************************************************************)
C11_CommittedBeforeSuccess ==
    \A r \in Reqs :
        (Succeeded(r) /\ calls[r] = 1)
        => /\ pending[r] = {}
           /\ \A i \in 1..Len(data[r]) :
                 /\ KeyCount(fin[r], req[r].symbol, data[r][i].timestamp) >= 1
                 /\ KeyCount(store, req[r].symbol, data[r][i].timestamp) >= 1
                 /\ \A q \in Reqs :
                       (Started(q) /\ IsGet(q) /\ snap[q] = store
                        /\ req[q].symbol = req[r].symbol
                        /\ req[q].start_dt <= data[r][i].timestamp
                        /\ data[r][i].timestamp <= req[q].end_dt)
                       => \E k \in 1..Len(out[q].rows) :
                             out[q].rows[k].timestamp = data[r][i].timestamp

\* A refresh that stored two records, and a later get_series call of the
\* symbol that was served both from the store.
C11_Witness ==
    \E r, q \in Reqs :
        /\ Succeeded(r) /\ IsRefresh(r) /\ BagCardinality(wrote[r]) = 2
        /\ Succeeded(q) /\ IsGet(q) /\ calls[q] = 0
        /\ req[q].symbol = req[r].symbol
        /\ snap[q] = fin[r]
        /\ Len(out[q].rows) = 2

(***************************************************************************)
(* C12  refresh bypasses the cache: whatever the store holds, a refresh    *)
(* call that has got past its fetch has invoked the provider exactly once  *)
(* (none before), and on success it reports the number of records the      *)
(* provider returned after validation, whether or not the store already    *)
(* held their keys, and every one of those keys is in the store.           *)
(***************************************************************************)
ParsableEntries(resp) == {t \in DOMAIN resp.series : EntryParses(resp.series[t])}

C12_RefreshAlwaysFetches ==
    \A r \in Reqs :
        (Started(r) /\ IsRefresh(r))
        => /\ calls[r] = IF pc[r] = "fetch" THEN 0 ELSE 1
           /\ Succeeded(r) =>
                /\ out[r].count = Cardinality(ParsableEntries(raw[r]))
                /\ out[r].count = Len(data[r])
                /\ out[r].count >= 1
                /\ \A t \in ParsableEntries(raw[r]) :
                      KeyCount(fin[r], req[r].symbol, t) >= 1

\* A refresh on a store that already held one of the two keys it fetched: it
\* called the provider, reported 2 and inserted 1.
C12_Witness ==
    \E r \in Reqs :
        /\ Succeeded(r) /\ IsRefresh(r) /\ calls[r] = 1
        /\ \E x \in BagToSet(snap[r]) : x.symbol = req[r].symbol
        /\ out[r].count = 2
        /\ BagCardinality(wrote[r]) = 1

(***************************************************************************)
(* C13  Resource cleanup: on every exit path of a request the warehouse's  *)
(* provider client has been closed when the request finishes.              *)
(***************************************************************************)
C13_ClientClosedOnExit ==
    \A r \in Reqs : Done(r) => out[r].closed

(***************************************************************************)
(* C14  Case-normalized keying: the write path and the read path key the   *)
(* store by the same normalization of the caller's symbol, so "aapl" and   *)
(* "AAPL" address one series: a get_series call that starts on a store     *)
(* holding an in-range row ingested under a symbol that differs from its   *)
(* own only in letter case is a cache hit and makes no provider call.      *)
(***************************************************************************)
Upper(symbol) == IF symbol = "aapl" THEN "AAPL" ELSE symbol

C14_CaseNormalizedKeying ==
    \A q \in Reqs :
        (/\ Started(q) /\ IsGet(q)
         /\ \E x \in BagToSet(snap[q]) :
               /\ Upper(x.symbol) = Upper(req[q].symbol)
               /\ InRange(x.timestamp, req[q].start_dt, req[q].end_dt))
        => /\ pc[q] = "done"
           /\ calls[q] = 0
           /\ Succeeded(q)

(***************************************************************************)
(* C15  Inclusive bounds: the store range query and the post-fetch filter  *)
(* keep a record whose timestamp equals start or equals end.  A get_series *)
(* call with start <= end on a store holding a row of the symbol at start  *)
(* or at end is a hit that returns that row; a fetched record at start or  *)
(* at end is in the result of a miss.  With start = end = t the result is  *)
(* exactly what is stored (or was fetched) at t and nothing else: the one  *)
(* record when the key is stored once.                                     *)
(***************************************************************************)
C15_BoundsInclusive ==
    \A r \in Reqs :
        (Started(r) /\ IsGet(r) /\ req[r].start_dt <= req[r].end_dt)
        => LET s == req[r].start_dt
               e == req[r].end_dt
               sym == req[r].symbol
               atBound == {x \in BagToSet(snap[r]) :
                             x.symbol = sym /\ (x.timestamp = s \/ x.timestamp = e)}
           IN /\ atBound # {}
                 => /\ Succeeded(r) /\ calls[r] = 0
                    /\ \A x \in atBound :
                          Occurrences(out[r].rows, Values(x)) = CopiesIn(x, snap[r])
                    /\ s = e => /\ Len(out[r].rows) = KeyCount(snap[r], sym, s)
                                /\ KeyCount(snap[r], sym, s) = 1
                                   => \E x \in atBound : out[r].rows = <<Values(x)>>
              /\ (Succeeded(r) /\ calls[r] = 1)
                 => /\ \A i \in 1..Len(data[r]) :
                          (data[r][i].timestamp = s \/ data[r][i].timestamp = e)
                          => Occurrences(out[r].rows, FrameRow(data[r][i])) = 1
                    /\ s = e
                       => out[r].rows =
                             SelectSeq(OhlcvToDataframe(data[r]),
                                       LAMBDA x : x.timestamp = s)

\* start = end = day 2: one call served the single stored row of day 2 from a
\* store that also holds day 1, another fetched days 1 and 2 and returned
\* day 2 alone.
C15_Witness ==
    \E r, q \in Reqs :
        /\ Succeeded(r) /\ IsGet(r) /\ calls[r] = 0
        /\ req[r].start_dt = 2 /\ req[r].end_dt = 2
        /\ KeyCount(snap[r], req[r].symbol, 1) = 1
        /\ KeyCount(snap[r], req[r].symbol, 2) = 1
        /\ Len(out[r].rows) = 1 /\ out[r].rows[1].timestamp = 2
        /\ Succeeded(q) /\ IsGet(q) /\ calls[q] = 1
        /\ req[q].start_dt = 2 /\ req[q].end_dt = 2
        /\ Len(data[q]) = 2
        /\ Len(out[q].rows) = 1 /\ out[q].rows[1].timestamp = 2

(***************************************************************************)
(* C16  Round trip: every row a committed upsert wrote carries the fetched *)
(* record's open, high, low, close and volume under the call's symbol, and *)
(* a later range query for that symbol whose bounds include its timestamp  *)
(* returns it with those same values.                                      *)
(***************************************************************************)
WrittenFrom(symbol, o) ==
    [symbol |-> symbol, timestamp |-> o.timestamp, open |-> o.open, high |-> o.high,
     low |-> o.low, close |-> o.close, volume |-> o.volume]
ReadBack(x) ==
    [timestamp |-> x.timestamp, open |-> x.open, high |-> x.high, low |-> x.low,
     close |-> x.close, volume |-> x.volume]

C16_RoundTrip ==
    /\ \A r \in Reqs : \A x \in BagToSet(wrote[r]) :
          /\ \E i \in 1..Len(data[r]) : x = WrittenFrom(req[r].symbol, data[r][i])
          /\ \A q \in Reqs :
                (/\ Started(q) /\ IsGet(q)
                 /\ CopiesIn(x, snap[q]) >= 1
                 /\ req[q].symbol = x.symbol
                 /\ req[q].start_dt <= x.timestamp /\ x.timestamp <= req[q].end_dt)
                => /\ Succeeded(q) /\ calls[q] = 0
                   /\ Occurrences(out[q].rows, ReadBack(x)) = CopiesIn(x, snap[q])
    /\ \A x \in BagToSet(store) : \A s, e \in Times :
          (s <= x.timestamp /\ x.timestamp <= e)
          => \A res \in GetCachedData(store, x.symbol, s, e) :
                Occurrences(res, x) = CopiesIn(x, store)

\* A call wrote the rows of days 1 and 2; a later get of the symbol over days
\* 1..2 read both back.
C16_Witness ==
    \E r, q \in Reqs :
        /\ r # q
        /\ Succeeded(r) /\ BagCardinality(wrote[r]) = 2
        /\ Succeeded(q) /\ IsGet(q) /\ calls[q] = 0
        /\ req[q].symbol = req[r].symbol
        /\ req[q].start_dt = 1 /\ req[q].end_dt = 2
        /\ \A x \in BagToSet(wrote[r]) :
              /\ CopiesIn(x, snap[q]) = 1
              /\ Occurrences(out[q].rows, ReadBack(x)) = 1

(***************************************************************************)
(* C17  Stored rows are immutable and never deleted: no step of any call   *)
(* removes or changes a stored row, so a key stored with values v keeps    *)
(* its row with values v.  An upsert of a fetched record whose key is      *)
(* already stored leaves that key's rows as they were (ignore on           *)
(* conflict), also when the fetched values differ from the stored ones.    *)
(***************************************************************************)
RowsKept == \A x \in BagToSet(store) : CopiesIn(x, store') >= CopiesIn(x, store)

IgnoredOnConflict ==
    \A r \in Reqs :
        (Succeeded(r) /\ calls[r] = 1 /\ alone[r])
        => \A i \in 1..Len(data[r]) :
              LET t == data[r][i].timestamp
                  held == {x \in BagToSet(snap[r]) :
                             x.symbol = req[r].symbol /\ x.timestamp = t}
              IN held # {}
                 => /\ KeyCount(fin[r], req[r].symbol, t) = KeyCount(snap[r], req[r].symbol, t)
                    /\ \A x \in held : CopiesIn(x, fin[r]) = CopiesIn(x, snap[r])
                    /\ \A x \in BagToSet(wrote[r]) : x.timestamp # t

C17_StoredRowsImmutable == [][RowsKept]_vars /\ []IgnoredOnConflict

\* A refresh fetched day 1 with values other than the stored ones; the stored
\* row is still the only row of the key.
C17_Witness ==
    \E r \in Reqs :
        /\ Succeeded(r) /\ calls[r] = 1 /\ alone[r]
        /\ \E i \in 1..Len(data[r]) :
              \E x \in BagToSet(snap[r]) :
                 /\ x.symbol = req[r].symbol
                 /\ x.timestamp = data[r][i].timestamp
                 /\ ReadBack(x) # FrameRow(data[r][i])
                 /\ CopiesIn(x, store) = 1
                 /\ KeyCount(store, x.symbol, x.timestamp) = 1

(***************************************************************************)
(* C18  No data is reported as not-found at the request boundary: when     *)
(* get_series returns an empty result for GET /ohlcv, or the provider      *)
(* returns no records for POST /refresh, the handler's final response is   *)
(* the 404 it raises, not the 400 of a ValueError or the 500 of any other  *)
(* failure.                                                                *)
(***************************************************************************)
C18_NoDataIsNotFound ==
    \A r \in Reqs :
        Done(r)
        => /\ (IsGet(r) /\ out[r].status = "ok" /\ out[r].rows = <<>>)
              => out[r].http = 404
           /\ (IsRefresh(r) /\ calls[r] = 1
               /\ FetchDailyExc(raw[r]) = NoExc /\ FetchDaily(raw[r]) = <<>>)
              => out[r].http = 404

(***************************************************************************)
(* C19  Miss then hit: with no other writer, after a cache-miss get_series *)
(* call has returned a non-empty success, the next get_series call with    *)
(* the same symbol and range is a hit: no provider call, the same rows in  *)
(* the same order with the same values.  When the first call returned an   *)
(* empty success (everything fetched lies outside the range), the repeated *)
(* call is a miss again and goes to the provider.                          *)
(***************************************************************************)
SameArguments(r1, r2) ==
    /\ req[r1].symbol = req[r2].symbol
    /\ req[r1].start_dt = req[r2].start_dt
    /\ req[r1].end_dt = req[r2].end_dt

C19_MissThenHit ==
    \A r1, r2 \in Reqs :
        (/\ r1 # r2
         /\ IsGet(r1) /\ Succeeded(r1) /\ calls[r1] = 1 /\ alone[r1]
         /\ IsGet(r2) /\ Started(r2) /\ SameArguments(r1, r2)
         /\ snap[r2] = fin[r1])
        => IF out[r1].rows # <<>>
           THEN /\ Succeeded(r2) /\ calls[r2] = 0
                /\ out[r2].rows = out[r1].rows
                /\ wrote[r2] = EmptyBag
           ELSE /\ pc[r2] # "idle"
                /\ pc[r2] = "fetch" \/ calls[r2] = 1

\* A miss over days 1..2 stored and returned two rows; the repeated call
\* returned the same two rows without a provider call.
C19_Witness ==
    \E r1, r2 \in Reqs :
        /\ r1 # r2
        /\ IsGet(r1) /\ Succeeded(r1) /\ calls[r1] = 1 /\ alone[r1]
        /\ Len(out[r1].rows) = 2
        /\ IsGet(r2) /\ Succeeded(r2) /\ SameArguments(r1, r2)
        /\ snap[r2] = fin[r1]
        /\ calls[r2] = 0
        /\ out[r2].rows = out[r1].rows

(***************************************************************************)
(* C20  Cross-symbol isolation: a get_series or refresh call for symbol A, *)
(* whether it hits, misses or fails, writes rows of A only and leaves the  *)
(* stored rows of every other symbol as they were; the rows it returns are *)
(* rows of A: on a hit exactly A's stored in-range rows, on a miss A's     *)
(* fetched in-range records.                                               *)
(***************************************************************************)
OtherSymbolRows(st, symbol) == Restrict(st, {x \in BagToSet(st) : x.symbol # symbol})

C20_CrossSymbolIsolation ==
    \A r \in Reqs :
        Started(r)
        => /\ \A x \in BagToSet(wrote[r]) : x.symbol = req[r].symbol
           /\ alone[r]
              => OtherSymbolRows(fin[r], req[r].symbol) = OtherSymbolRows(snap[r], req[r].symbol)
           /\ (Succeeded(r) /\ IsGet(r) /\ calls[r] = 0)
              => /\ \A k \in 1..Len(out[r].rows) :
                       \E x \in FoundAtStart(r) : out[r].rows[k] = ReadBack(x)
                 /\ Len(out[r].rows) = BagCardinality(Restrict(snap[r], FoundAtStart(r)))
           /\ (Succeeded(r) /\ IsGet(r) /\ calls[r] = 1)
              => \A k \in 1..Len(out[r].rows) :
                    \E i \in 1..Len(data[r]) : out[r].rows[k] = FrameRow(data[r][i])

\* A get for one symbol on a store that holds, inside the requested range, a
\* row of another symbol only: the call missed, fetched and stored its own
\* row of that day with other values, returned it, and the other symbol's
\* row is as it was.
C20_Witness ==
    \E r \in Reqs :
        /\ Succeeded(r) /\ IsGet(r) /\ calls[r] = 1
        /\ \E x \in BagToSet(snap[r]) :
              /\ x.symbol # req[r].symbol
              /\ req[r].start_dt <= x.timestamp /\ x.timestamp <= req[r].end_dt
              /\ CopiesIn(x, store) = 1
              /\ KeyCount(store, req[r].symbol, x.timestamp) = 1
              /\ Len(out[r].rows) = 1
              /\ out[r].rows[1].timestamp = x.timestamp
              /\ out[r].rows[1] # ReadBack(x)

====
